---------------------------- MODULE Spec2Model ----------------------------
(***************************************************************************)
(* A model of ares.simulations.Global21cm: the run() driver, its inner     *)
(* stepping loop, the minimum-halo-mass (Mmin) feedback update, the        *)
(* convergence test and reboot().                                          *)
(*                                                                         *)
(* Real-valued quantities are exact rationals <<n, d>> in lowest terms     *)
(* with d > 0.  <<0, 0>> is NaN and <<1, 0>>, <<-1, 0>> are +inf, -inf,    *)
(* the values numpy produces for a division by zero.                       *)
(*                                                                         *)
(* Each arithmetic operator XOf works on values; X binds its operands to   *)
(* values first, so that an operand expression is evaluated once.          *)
(***************************************************************************)
EXTENDS Integers, Sequences, FiniteSets, TLC

(***************************************************************************)
(* Rational arithmetic                                                     *)
(***************************************************************************)
Abs(i) == IF i < 0 THEN -i ELSE i

Sign(i) == IF i < 0 THEN -1 ELSE IF i > 0 THEN 1 ELSE 0

RECURSIVE GCD(_, _)
GCD(a, b) == IF b = 0 THEN a ELSE GCD(b, a % b)

NormOf(n, d) ==
    IF d = 0 THEN <<Sign(n), 0>>
    ELSE LET g == GCD(Abs(n), Abs(d))
             s == Sign(d)
         IN  <<(s * n) \div g, (s * d) \div g>>

Norm(n, d) == CHOOSE r \in {NormOf(v1, v2) : v1 \in {n}, v2 \in {d}} : TRUE

R(i) == <<i, 1>>

NaN == <<0, 0>>

IsNaN(a) == a = NaN

IsFinite(a) == a[2] # 0

RAddOf(a, b) ==
    IF IsNaN(a) \/ IsNaN(b) THEN NaN
    ELSE IF ~IsFinite(a) THEN (IF ~IsFinite(b) /\ b # a THEN NaN ELSE a)
    ELSE IF ~IsFinite(b) THEN b
    ELSE Norm(a[1] * b[2] + b[1] * a[2], a[2] * b[2])

RAdd(a, b) == CHOOSE r \in {RAddOf(v1, v2) : v1 \in {a}, v2 \in {b}} : TRUE

RNegOf(a) == <<-a[1], a[2]>>

RNeg(a) == CHOOSE r \in {RNegOf(v1) : v1 \in {a}} : TRUE

RSub(a, b) == RAdd(a, RNeg(b))

RMulOf(a, b) ==
    IF IsFinite(a) /\ IsFinite(b) THEN Norm(a[1] * b[1], a[2] * b[2])
    ELSE <<Sign(a[1]) * Sign(b[1]), 0>>

RMul(a, b) == CHOOSE r \in {RMulOf(v1, v2) : v1 \in {a}, v2 \in {b}} : TRUE

\* numpy float division: x/0 is +-inf, 0/0 is nan (a warning, no exception)
RDivOf(a, b) ==
    IF IsNaN(a) \/ IsNaN(b) THEN NaN
    ELSE IF ~IsFinite(b) THEN (IF IsFinite(a) THEN R(0) ELSE NaN)
    ELSE IF ~IsFinite(a) THEN <<a[1] * (IF b[1] < 0 THEN -1 ELSE 1), 0>>
    ELSE IF b[1] = 0 THEN <<Sign(a[1]), 0>>
    ELSE Norm(a[1] * b[2], a[2] * b[1])

RDiv(a, b) == CHOOSE r \in {RDivOf(v1, v2) : v1 \in {a}, v2 \in {b}} : TRUE

RAbsOf(a) == <<Abs(a[1]), a[2]>>

RAbs(a) == CHOOSE r \in {RAbsOf(v1) : v1 \in {a}} : TRUE

\* comparisons: any comparison with NaN is false
RLtOf(a, b) ==
    IF IsNaN(a) \/ IsNaN(b) THEN FALSE
    ELSE IF ~IsFinite(a) THEN a[1] < 0 /\ b # a
    ELSE IF ~IsFinite(b) THEN b[1] > 0
    ELSE a[1] * b[2] < b[1] * a[2]

RLt(a, b) == CHOOSE r \in {RLtOf(v1, v2) : v1 \in {a}, v2 \in {b}} : TRUE

RGt(a, b) == RLt(b, a)

RLeOf(a, b) == ~IsNaN(a) /\ ~IsNaN(b) /\ (a = b \/ RLt(a, b))

RLe(a, b) == CHOOSE r \in {RLeOf(v1, v2) : v1 \in {a}, v2 \in {b}} : TRUE

\* np.minimum / np.maximum (NaN propagates)
RMinOf(a, b) == IF IsNaN(a) \/ IsNaN(b) THEN NaN ELSE IF RLt(b, a) THEN b ELSE a

RMin(a, b) == CHOOSE r \in {RMinOf(v1, v2) : v1 \in {a}, v2 \in {b}} : TRUE

RMaxOf(a, b) == IF IsNaN(a) \/ IsNaN(b) THEN NaN ELSE IF RLt(a, b) THEN b ELSE a

RMax(a, b) == CHOOSE r \in {RMaxOf(v1, v2) : v1 \in {a}, v2 \in {b}} : TRUE

(***************************************************************************)
(* numpy helpers on sequences                                              *)
(***************************************************************************)
\* the function on 1..n as a sequence value
AsArray(f) == f \o <<>>

\* a[-1::-1]
Reverse(s) == AsArray([i \in 1..Len(s) |-> s[Len(s) + 1 - i]])

RECURSIVE RSum(_)
RSum(s) == IF s = <<>> THEN R(0) ELSE RAdd(s[1], RSum(Tail(s)))

\* ndarray.mean(): the mean of an empty array is nan
RMean(s) == RDiv(RSum(s), R(Len(s)))

\* np.interp(x, xp, fp) for one x: xp ascending integers, fp rationals;
\* clamped to fp[0] below xp[0] and to fp[-1] above xp[-1]
InterpOf(x, xp, fp) ==
    LET n == Len(xp) IN
    IF x <= xp[1] THEN fp[1]
    ELSE IF x >= xp[n] THEN fp[n]
    ELSE LET i == CHOOSE k \in 1..(n - 1) : xp[k] <= x /\ x < xp[k + 1]
         IN  RAdd(fp[i], RMul(RSub(fp[i + 1], fp[i]),
                              Norm(x - xp[i], xp[i + 1] - xp[i])))

Interp(x, xp, fp) ==
    CHOOSE r \in {InterpOf(v1, v2, v3) :
                     v1 \in {x}, v2 \in {xp}, v3 \in {fp}} : TRUE

\* np.interp(xs, xp, fp) for an array xs
InterpAllOf(xs, xp, fp) ==
    AsArray([i \in 1..Len(xs) |-> InterpOf(xs[i], xp, fp)])

InterpAll(xs, xp, fp) ==
    CHOOSE r \in {InterpAllOf(v1, v2, v3) :
                     v1 \in {xs}, v2 \in {xp}, v3 \in {fp}} : TRUE

RSeq(s) == AsArray([i \in 1..Len(s) |-> R(s[i])])

(***************************************************************************)
(* Bounds and input sets                                                   *)
(***************************************************************************)
\* largest configured feedback_maxiter
MaxIter == 3

\* run() is called from outside only while the iteration count is below this
MaxCount == 3

\* redshift of the initial-condition record and the redshifts the Medium's
\* stepping generator can yield, SubFinalRedshift being one below
\* final_redshift
InitialRedshift == 60

FinalRedshift == 20

SubFinalRedshift == 10

StepRedshifts == {40, 20, SubFinalRedshift}

\* what the Medium and the sources deliver at one step: the value hydr.dTb
\* returns for the step's gas state, and the flux level of the sources
StepInputs == {[dTb |-> -4, J |-> 1], [dTb |-> -2, J |-> 3]}

\* brightness temperature of the initial conditions
InitdTb == -2

\* halos.VirialMass(Tcut, z) as a function of redshift: a ceiling rising
\* towards low redshift, and one that does not
CeilFuncs ==
    { (60 :> 4 @@ 40 :> 6 @@ 20 :> 8),
      (60 :> 4 @@ 40 :> 8 @@ 20 :> 5) }

\* user-supplied feedback_LW_Mmin functions of redshift
UserMassFuncs ==
    { (60 :> 2 @@ 40 :> 9 @@ 20 :> 3) }

\* (feedback_LW_rtol, feedback_LW_atol, feedback_LW_mean_err)
Policies ==
    { <<R(0), R(0), TRUE>>, <<Norm(1, 2), R(0), TRUE>>,
      <<Norm(1, 2), R(1), TRUE>>, <<R(0), R(1), TRUE>>,
      <<R(0), R(0), FALSE>>, <<Norm(1, 2), R(0), FALSE>> }

Pop(lya, rte, band, tab) ==
    [is_lya_src |-> lya, solve_rte |-> rte, lya_band |-> band, sed_tab |-> tab]

\* the parameters and keyword arguments the model reads, and the scenario:
\* inputs is what the Medium can deliver at a step, caller_saves whether the
\* calling script calls save(), has_blobs whether the object has blobs
BaseCfg ==
    [ feedback_LW_Mmin        |-> "None",
      feedback_maxiter        |-> 1,
      feedback_LW_rtol        |-> Norm(1, 2),
      feedback_LW_atol        |-> R(0),
      feedback_LW_mean_err    |-> FALSE,
      feedback_LW_Mmin_uponly |-> FALSE,
      feedback_LW_fsh         |-> "None",
      feedback_LW_felt_by     |-> <<1>>,
      VirialMass              |-> (60 :> 4 @@ 40 :> 6 @@ 20 :> 8),
      user_Mmin               |-> (60 :> 2 @@ 40 :> 9 @@ 20 :> 3),
      track_extrema           |-> FALSE,
      save_rate_coefficients  |-> FALSE,
      has_tau                 |-> TRUE,
      pops                    |-> <<Pop(TRUE, FALSE, FALSE, TRUE)>>,
      inputs                  |-> StepInputs,
      caller_saves            |-> FALSE,
      has_blobs               |-> FALSE,
      tanh_model              |-> "absent",
      gaussian_model          |-> "absent",
      parametric_model        |-> "absent" ]

\* runs without feedback
NoFeedbackCfgs ==
    { [BaseCfg EXCEPT !.track_extrema = te, !.save_rate_coefficients = rc,
                      !.has_tau = tau] :
        te \in BOOLEAN, rc \in BOOLEAN, tau \in BOOLEAN }

\* feedback runs: every tolerance policy at the largest maxiter, and every
\* maxiter under a policy that exact agreement alone satisfies or not even
\* that
ConvergenceCfgs ==
    { [BaseCfg EXCEPT !.feedback_LW_Mmin = "visbal2015",
                      !.feedback_maxiter = mp[1],
                      !.feedback_LW_rtol = mp[2][1],
                      !.feedback_LW_atol = mp[2][2],
                      !.feedback_LW_mean_err = mp[2][3],
                      !.track_extrema = (mp[2][1] # R(0))] :
        mp \in { q \in (1..MaxIter) \X Policies :
                   q[1] = MaxIter \/ (q[2][1] = R(0) /\ q[2][2] = R(0)) } }

\* feedback runs over the variants of the Mmin update
MminCfgs ==
    { [BaseCfg EXCEPT !.feedback_LW_Mmin = "visbal2015",
                      !.feedback_maxiter = MaxIter,
                      !.feedback_LW_Mmin_uponly = up,
                      !.VirialMass = ceil] :
        up \in BOOLEAN, ceil \in CeilFuncs }
    \cup
    { [BaseCfg EXCEPT !.feedback_LW_Mmin = "function",
                      !.feedback_maxiter = MaxIter,
                      !.feedback_LW_Mmin_uponly = up,
                      !.user_Mmin = um] :
        up \in BOOLEAN, um \in UserMassFuncs }
    \cup
    { [BaseCfg EXCEPT !.feedback_LW_Mmin = "visbal2015",
                      !.feedback_maxiter = MaxIter,
                      !.feedback_LW_fsh = sh,
                      !.has_tau = (sh = "value"),
                      !.pops = <<Pop(TRUE, FALSE, FALSE, sh = "function")>>] :
        sh \in {"function", "value"} }

\* feedback_LW_Mmin values the dispatch at the mass formula rejects:
\* "other" is neither the name nor a function, "visbal2015_equal" is a
\* string equal to the name that is not the literal's own object
BadFormulaCfgs ==
    { [BaseCfg EXCEPT !.feedback_LW_Mmin = f, !.feedback_maxiter = MaxIter] :
        f \in {"other", "visbal2015_equal"} }

\* the keywords _check_if_phenom reads: each absent, true or false
Flags == {"absent", "True", "False"}

PhenomCfgs ==
    { [BaseCfg EXCEPT !.tanh_model = f[1], !.gaussian_model = f[2],
                      !.parametric_model = f[3],
                      !.inputs = {[dTb |-> -4, J |-> 1]}] :
        f \in (Flags \X Flags \X Flags) \ {<<"absent", "absent", "absent">>} }

\* scenarios in which the caller saves: without feedback and with it
SaveCfgs ==
    { [BaseCfg EXCEPT !.caller_saves = TRUE, !.has_blobs = b,
                      !.save_rate_coefficients = TRUE,
                      !.feedback_LW_Mmin = f,
                      !.inputs = {[dTb |-> -4, J |-> 1]}] :
        b \in BOOLEAN, f \in {"None", "visbal2015"} }

\* several populations, with and without feedback: a Lyman-alpha source
\* with the closed-form flux, a population that is no source, and sources
\* that solve the radiative transfer with and without a band holding the
\* Lyman-alpha line
FluxCfgs ==
    { [BaseCfg EXCEPT !.feedback_LW_Mmin = f,
                      !.feedback_maxiter = 2,
                      !.inputs = {[dTb |-> -4, J |-> 3]},
                      !.pops = <<Pop(TRUE, FALSE, FALSE, TRUE),
                                 Pop(FALSE, FALSE, FALSE, TRUE),
                                 Pop(TRUE, TRUE, TRUE, TRUE),
                                 Pop(TRUE, TRUE, FALSE, TRUE)>>] :
        f \in {"None", "visbal2015"} }

Configs ==
    NoFeedbackCfgs \cup ConvergenceCfgs \cup MminCfgs \cup BadFormulaCfgs
    \cup PhenomCfgs \cup SaveCfgs \cup FluxCfgs

(***************************************************************************)
(* State of one Global21cm object                                          *)
(***************************************************************************)
VARIABLES
    cfg,          \* the parameters given at construction (self.pf)
    is_phenom,    \* self.is_phenom
    kwargs,       \* what run() and reboot() add to self.kwargs
    count,        \* self._count
    maxiter_attr, \* self._maxiter: <<>> while the attribute is absent
    suite,        \* self._suite
    history,      \* self.history, Unset while the attribute is absent
    medium,       \* self._medium, Unset while the attribute is absent
    nmedium,      \* number of Medium instances constructed so far
    carryover,    \* self._carryover_kwargs, Unset while absent
    acc,          \* self.all_t, all_z, all_dTb, all_data_*, all_RC_*
    gz,           \* redshift the stepping generator has reached
    pc,           \* "idle", "loop" (inside the for loop of run()) or
                  \* "recurse" (at the nested call self.run())
    outcome,      \* how the last run() ended
    conv,         \* the last call of _is_converged: its inputs and result
    fbk,          \* locals of the last Mmin update of run()
    entry_count,  \* self._count when run() was last called from outside
    io,           \* the last save() call and what it did to the files
    toy           \* a SynthesisModelToy instance, Unset where there is none

\* the state of the Global21cm instance
simvars == <<cfg, is_phenom, kwargs, count, maxiter_attr, suite, history,
             medium, nmedium, carryover, acc, gz, pc, outcome, conv, fbk,
             entry_count, io>>

vars == <<simvars, toy>>

Unset == [unset |-> TRUE]

IsSet(v) == v # Unset

Last(s) == s[Len(s)]

\* Python truth of a keyword that may be absent
Truthy(v) == v = "True"

(***************************************************************************)
(* Global21cm._check_if_phenom                                             *)
(***************************************************************************)
_check_if_phenom(kw) ==
    IF kw.tanh_model = "absent" /\ kw.gaussian_model = "absent"
       /\ kw.parametric_model = "absent"
    THEN FALSE
    ELSE LET is_tanh  == kw.tanh_model # "absent" /\ Truthy(kw.tanh_model)
             is_gauss == kw.tanh_model = "absent"
                         /\ kw.gaussian_model # "absent"
                         /\ Truthy(kw.gaussian_model)
             is_param == kw.tanh_model = "absent"
                         /\ kw.gaussian_model = "absent"
                         /\ kw.parametric_model # "absent"
                         /\ Truthy(kw.parametric_model)
         IN  is_tanh \/ is_gauss \/ is_param

(***************************************************************************)
(* The Medium and the sources, as far as run() and step() use them         *)
(***************************************************************************)
\* MultiPhaseMedium(**kwargs): instance n; a sub-object handed over in
\* kwargs is used as it is, any other is built by this instance
NewMedium(kw, n, c) ==
    [ id  |-> n,
      tau |-> IF IsSet(kw.carry) /\ kw.carry.tau_instance # 0
              THEN kw.carry.tau_instance ELSE n,
      psm |-> [i \in 1..Len(c.pops) |->
                 IF IsSet(kw.carry) /\ kw.carry.pop_psm_instance[i] # 0
                 THEN kw.carry.pop_psm_instance[i] ELSE n],
      hmf |-> IF IsSet(kw.carry) THEN kw.carry.hmf_instance ELSE n ]

\* cosmic time of a redshift
TimeOf(z) == InitialRedshift - z

\* hydr.Ts(z, Tk, Ja, x, ne)
HydrTs(z, Ja) == z + Ja

\* field.LymanAlphaFlux(z, popid) and field.LymanWernerFlux(z, popid), and
\* the tabulated band fluxes, at the flux level j of the step
LymanAlphaFlux(j, i) == j + (i - 1)

LymanWernerFlux(j, i) == j + 2 * (i - 1)

\* medium._insert_inits() and the lists run() takes from the Medium, after
\* run() has added Ja, Jlw and _init_dTb has added Ts and dTb
InitLists ==
    [ all_t        |-> <<TimeOf(InitialRedshift)>>,
      all_z        |-> <<InitialRedshift>>,
      all_dTb      |-> <<InitdTb>>,
      all_data_igm |-> << [Ts |-> HydrTs(InitialRedshift, 0), dTb |-> InitdTb,
                           Ja |-> 0, Jlw |-> 0] >>,
      all_data_cgm |-> << [h_2 |-> 0] >>,
      all_RC_igm   |-> << [k |-> InitialRedshift] >>,
      all_RC_cgm   |-> << [k |-> InitialRedshift] >>,
      folded       |-> 0,
      yielded      |-> <<>>,
      stopped      |-> FALSE ]

(***************************************************************************)
(* Global21cm.step: one record of the generator                            *)
(***************************************************************************)
RECURSIVE SumFlux(_, _, _, _)
SumFlux(c, j, i, lw) ==
    IF i > Len(c.pops) THEN 0
    ELSE LET pop  == c.pops[i]
             this ==
               IF ~pop.is_lya_src THEN 0
               ELSE IF ~pop.solve_rte
                    THEN IF lw
                         THEN IF c.feedback_LW_Mmin # "None"
                              THEN LymanWernerFlux(j, i) ELSE 0
                         ELSE LymanAlphaFlux(j, i)
                    ELSE IF pop.lya_band
                         THEN IF lw THEN LymanWernerFlux(j, i)
                                    ELSE LymanAlphaFlux(j, i)
                         ELSE 0
         IN  this + SumFlux(c, j, i + 1, lw)

step(c, z, x) ==
    LET Ja  == SumFlux(c, x.J, 1, FALSE)
        Jlw == SumFlux(c, x.J, 1, TRUE)
    IN  [ t        |-> TimeOf(z),
          z        |-> z,
          data_igm |-> [Ts |-> HydrTs(z, Ja), dTb |-> x.dTb, Ja |-> Ja,
                        Jlw |-> Jlw],
          data_cgm |-> [h_2 |-> InitialRedshift - z],
          RC_igm   |-> [k |-> z],
          RC_cgm   |-> [k |-> z] ]

\* the record r has come out of self.step(): yielded keeps, in order, the
\* records the for loop of run() has received in this iteration
Yield(a, r) == [a EXCEPT !.yielded = Append(@, r)]

\* track.is_stopping_point has fired on the record folded last
StoppingPoint(a) == [a EXCEPT !.stopped = TRUE]

\* a fold that puts the record in front of the ones folded before
Fold_in_front(a, r) ==
    [ all_t        |-> <<r.t>> \o a.all_t,
      all_z        |-> <<r.z>> \o a.all_z,
      all_dTb      |-> <<r.data_igm.dTb>> \o a.all_dTb,
      all_data_igm |-> <<r.data_igm>> \o a.all_data_igm,
      all_data_cgm |-> <<r.data_cgm>> \o a.all_data_cgm,
      all_RC_igm   |-> <<r.RC_igm>> \o a.all_RC_igm,
      all_RC_cgm   |-> <<r.RC_cgm>> \o a.all_RC_cgm,
      folded       |-> a.folded + 1,
      yielded      |-> a.yielded,
      stopped      |-> a.stopped ]

\* a fold that leaves the rate-coefficient lists as they are
Fold_without_rates(a, r) ==
    [ all_t        |-> Append(a.all_t, r.t),
      all_z        |-> Append(a.all_z, r.z),
      all_dTb      |-> Append(a.all_dTb, r.data_igm.dTb),
      all_data_igm |-> Append(a.all_data_igm, r.data_igm),
      all_data_cgm |-> Append(a.all_data_cgm, r.data_cgm),
      all_RC_igm   |-> a.all_RC_igm,
      all_RC_cgm   |-> a.all_RC_cgm,
      folded       |-> a.folded + 1,
      yielded      |-> a.yielded,
      stopped      |-> a.stopped ]

\* lines 258-264 of run(): fold one yielded record into the lists; folded
\* counts the records folded since the lists were taken from the Medium
Fold(a, r) ==
    [ all_t        |-> Append(a.all_t, r.t),
      all_z        |-> Append(a.all_z, r.z),
      all_dTb      |-> Append(a.all_dTb, r.data_igm.dTb),
      all_data_igm |-> Append(a.all_data_igm, r.data_igm),
      all_data_cgm |-> Append(a.all_data_cgm, r.data_cgm),
      all_RC_igm   |-> Append(a.all_RC_igm, r.RC_igm),
      all_RC_cgm   |-> Append(a.all_RC_cgm, r.RC_cgm),
      folded       |-> a.folded + 1,
      yielded      |-> a.yielded,
      stopped      |-> a.stopped ]

\* lines 273-296 of run(): the merged history with its aliases
Column(list, key) == [i \in 1..Len(list) |-> list[i][key]]

\* the merged history with the alias Ts taken from the igm_dTb column
MakeHistory_alias_slip(a, c) ==
    LET igm_Ts  == Column(a.all_data_igm, "Ts")
        igm_dTb == Column(a.all_data_igm, "dTb")
        igm_Ja  == Column(a.all_data_igm, "Ja")
        igm_Jlw == Column(a.all_data_igm, "Jlw")
        cgm_h_2 == Column(a.all_data_cgm, "h_2")
    IN  IF c.save_rate_coefficients
        THEN [ igm_Ts |-> igm_Ts, igm_dTb |-> igm_dTb, igm_Ja |-> igm_Ja,
               igm_Jlw |-> igm_Jlw, cgm_h_2 |-> cgm_h_2,
               dTb |-> igm_dTb, Ts |-> igm_dTb, Ja |-> igm_Ja, Jlw |-> igm_Jlw,
               igm_k |-> Column(a.all_RC_igm, "k"),
               cgm_k |-> Column(a.all_RC_cgm, "k"),
               t |-> a.all_t, z |-> a.all_z ]
        ELSE [ igm_Ts |-> igm_Ts, igm_dTb |-> igm_dTb, igm_Ja |-> igm_Ja,
               igm_Jlw |-> igm_Jlw, cgm_h_2 |-> cgm_h_2,
               dTb |-> igm_dTb, Ts |-> igm_dTb, Ja |-> igm_Ja, Jlw |-> igm_Jlw,
               t |-> a.all_t, z |-> a.all_z ]

MakeHistory(a, c) ==
    LET igm_Ts  == Column(a.all_data_igm, "Ts")
        igm_dTb == Column(a.all_data_igm, "dTb")
        igm_Ja  == Column(a.all_data_igm, "Ja")
        igm_Jlw == Column(a.all_data_igm, "Jlw")
        cgm_h_2 == Column(a.all_data_cgm, "h_2")
    IN  IF c.save_rate_coefficients
        THEN [ igm_Ts |-> igm_Ts, igm_dTb |-> igm_dTb, igm_Ja |-> igm_Ja,
               igm_Jlw |-> igm_Jlw, cgm_h_2 |-> cgm_h_2,
               dTb |-> igm_dTb, Ts |-> igm_Ts, Ja |-> igm_Ja, Jlw |-> igm_Jlw,
               igm_k |-> Column(a.all_RC_igm, "k"),
               cgm_k |-> Column(a.all_RC_cgm, "k"),
               t |-> a.all_t, z |-> a.all_z ]
        ELSE [ igm_Ts |-> igm_Ts, igm_dTb |-> igm_dTb, igm_Ja |-> igm_Ja,
               igm_Jlw |-> igm_Jlw, cgm_h_2 |-> cgm_h_2,
               dTb |-> igm_dTb, Ts |-> igm_Ts, Ja |-> igm_Ja, Jlw |-> igm_Jlw,
               t |-> a.all_t, z |-> a.all_z ]

(***************************************************************************)
(* The Mmin update of run(), lines 304-375                                 *)
(***************************************************************************)
\* redshift above which _is_converged compares nothing
ZCut == 50

\* pops[popid].Mmin interpolated over pops[popid].halos.z
PopMmin(z) == R(2)

\* np.minimum(1, (NH2(z, Mh) / 1e14)**-0.75): at most 1, and falling with
\* z and with Mh
PowerLawShielding(z, Mh) ==
    RMin(R(1), IF RLt(R(80), RMul(R(z), Mh)) THEN Norm(1, 2) ELSE R(2))

\* a user-supplied feedback_LW_fsh
UserShielding(z) == Norm(1, 2)

\* the Mmin series of the feedback-sensitive population in a suite record,
\* interpolated to z
RecordMmin(rec, popid, z) ==
    Interp(z, Reverse(rec.z), Reverse(rec.pop_Mmin[popid]))

\* lines 311-330: the self-shielding factor at z
f_sh(c, cnt, ste, z) ==
    IF c.feedback_LW_fsh # "None"
    THEN LET popid == c.feedback_LW_felt_by[1]
             Mh    == IF cnt > 1 THEN RecordMmin(Last(ste), popid, z)
                      ELSE PopMmin(z)
         IN  PowerLawShielding(z, Mh)
    ELSE IF c.feedback_LW_fsh = "function" THEN UserShielding(z)
    ELSE R(1)

\* line 334
f_J(c, cnt, ste, hist, zz) ==
    RMul(f_sh(c, cnt, ste, zz),
         Interp(zz, Reverse(hist.z), Reverse(RSeq(hist.Jlw))))

\* 2.5e5 * ((1 + z) / 26)**-1.5 * (1 + 6.96 * (4 pi J)**0.47): rises towards
\* low redshift and with the flux
Visbal2015(z, J) == RMul(Norm(80 - z, 20), RAdd(R(1), J))


\* the dispatch with the formula as the default of the else branch
MassFormula_default_visbal(c) ==
    IF c.feedback_LW_Mmin = "function" THEN "function" ELSE "visbal2015"

\* lines 336-342: which mass formula is used
MassFormula(c) ==
    IF c.feedback_LW_Mmin = "visbal2015" THEN "visbal2015"
    ELSE IF c.feedback_LW_Mmin = "function" THEN "function"
    ELSE "NotImplementedError"

f_M(c, cnt, ste, hist, zz) ==
    IF MassFormula(c) = "visbal2015"
    THEN Visbal2015(zz, f_J(c, cnt, ste, hist, zz))
    ELSE R(c.user_Mmin[zz])

\* np.maximum.accumulate
RECURSIVE RunningMax(_, _)
RunningMax(s, i) == IF i = 1 THEN s[1] ELSE RMax(RunningMax(s, i - 1), s[i])

MaximumAccumulate(s) ==
    CHOOSE r \in {AsArray([i \in 1..Len(v) |-> RunningMax(v, i)]) :
                     v \in {s}} : TRUE


\* damping against the first record of the suite instead of the last
MminPrev_first_record(c, ste, ztmp) ==
    [i \in 1..Len(ztmp) |->
        RecordMmin(ste[1], c.feedback_LW_felt_by[1], ztmp[i])]

\* lines 344-348: the previous record's Mmin on the grid of this iteration
MminPrev(c, ste, ztmp) ==
    AsArray([i \in 1..Len(ztmp) |->
        RecordMmin(Last(ste), c.feedback_LW_felt_by[1], ztmp[i])])

\* lines 344-353
MminNext(c, cnt, ste, raw, ztmp) ==
    IF cnt > 1
    THEN LET prev == MminPrev(c, ste, ztmp)
         IN  AsArray([i \in 1..Len(ztmp) |-> RMean(<<raw[i], prev[i]>>)])
    ELSE raw


\* the final series without the ceiling
MminFinal_no_clip(c, next, ceil) ==
    IF c.feedback_LW_Mmin_uponly THEN MaximumAccumulate(next) ELSE next

\* the final series without the running maximum
MminFinal_no_accumulate(c, next, ceil) ==
    [i \in 1..Len(next) |-> RMin(next[i], ceil[i])]

\* lines 359-370
MminFinal(c, next, ceil) ==
    LET clipped == AsArray([i \in 1..Len(next) |-> RMin(next[i], ceil[i])])
    IN  IF c.feedback_LW_Mmin_uponly THEN MaximumAccumulate(clipped)
        ELSE clipped

\* the locals of the update: ste is the suite before the append
MminUpdate(c, cnt, ste, hist) ==
    LET ztmp == hist.z
        raws == {AsArray([i \in 1..Len(ztmp) |->
                             f_M(c, cnt, ste, hist, ztmp[i])])}
        ceil == AsArray([i \in 1..Len(ztmp) |-> R(c.VirialMass[ztmp[i]])])
    IN  CHOOSE r \in UNION { {
            [ z |-> ztmp, raw |-> raw, next |-> next, ceil |-> ceil,
              Mmin |-> MminFinal(c, next, ceil), count |-> cnt,
              fsh |-> AsArray([i \in 1..Len(ztmp) |->
                                  f_sh(c, cnt, ste, ztmp[i])]) ] :
            next \in {MminNext(c, cnt, ste, raw, ztmp)} } :
            raw \in raws } : TRUE

\* lines 378-380: the record appended to the suite
FeltBy(c) ==
    {c.feedback_LW_felt_by[k] : k \in 1..Len(c.feedback_LW_felt_by)}

SuiteRecord(c, hist, Mmin) ==
    hist @@ [pop_Mmin |-> [p \in FeltBy(c) |-> Mmin]]

(***************************************************************************)
(* Global21cm._is_converged                                                *)
(***************************************************************************)
\* np.where(ok): the indices at which ok holds, in ascending order
RECURSIVE Where(_, _)
Where(ok, i) ==
    IF i > Len(ok) THEN <<>>
    ELSE (IF ok[i] THEN <<i>> ELSE <<>>) \o Where(ok, i + 1)

\* lines 521-538: the two compared curves, or an IndexError
Compared(hist, ste) ==
    IF Len(ste) < 2 THEN [error |-> TRUE]
    ELSE
    LET znow    == Reverse(hist.z)
        dTb_now == Reverse(RSeq(hist.dTb))
        sim_pre == ste[Len(ste) - 1]
        zpre    == Reverse(sim_pre.z)
        dTb_pre == Reverse(RSeq(sim_pre.dTb))
        ok      == [i \in 1..Len(znow) |-> znow[i] < ZCut]
        idx     == Where(ok, 1)
        dTb_now_interp == InterpAll(zpre, znow, dTb_now)
    IN  IF \E k \in 1..Len(idx) : idx[k] > Len(zpre)
        THEN [error |-> TRUE]
        ELSE [ error |-> FALSE,
               zpre  |-> AsArray([k \in 1..Len(idx) |-> zpre[idx[k]]]),
               pre   |-> AsArray([k \in 1..Len(idx) |-> dTb_pre[idx[k]]]),
               now   |-> AsArray([k \in 1..Len(idx) |->
                                    dTb_now_interp[idx[k]]]) ]

ErrRel(cmp) ==
    AsArray([k \in 1..Len(cmp.pre) |->
                RAbs(RDiv(RSub(cmp.now[k], cmp.pre[k]), cmp.now[k]))])

ErrAbs(cmp) ==
    AsArray([k \in 1..Len(cmp.pre) |-> RAbs(RSub(cmp.now[k], cmp.pre[k]))])

\* the closeness test with the relative term taken from the first array
AllClose_relative_to_first(a, b, rtol, atol) ==
    \A k \in 1..Len(a) :
        RLe(RAbs(RSub(a[k], b[k])), RAdd(atol, RMul(rtol, RAbs(a[k]))))

\* np.allclose(a, b, rtol, atol)
AllClose(a, b, rtol, atol) ==
    \A k \in 1..Len(a) :
        RLe(RAbs(RSub(a[k], b[k])), RAdd(atol, RMul(rtol, RAbs(b[k]))))

\* lines 549-575
ToleranceTest(c, cmp) ==
    LET rtol == c.feedback_LW_rtol
        atol == c.feedback_LW_atol
    IN  IF c.feedback_LW_mean_err
        THEN IF RGt(rtol, R(0)) /\ RGt(RMean(ErrRel(cmp)), rtol)
             THEN FALSE
             ELSE IF RGt(rtol, R(0)) /\ RLt(RMean(ErrRel(cmp)), rtol)
                     /\ atol = R(0)
             THEN TRUE
             ELSE RGt(atol, R(0)) /\ RLt(RMean(ErrAbs(cmp)), atol)
        ELSE AllClose(cmp.pre, cmp.now, rtol, atol)


\* the evaluator with the bound tested before the first-iteration shortcut
_is_converged_bound_first(c, cnt, mx, hist, ste) ==
    IF cnt >= mx THEN "True"
    ELSE IF cnt = 1 THEN "False"
    ELSE CHOOSE r \in {
             IF cmp.error THEN "IndexError"
             ELSE IF ToleranceTest(c, cmp) THEN "True" ELSE "False" :
             cmp \in {Compared(hist, ste)} } : TRUE

\* the evaluator with the bound tested by > instead of >=
_is_converged_late_bound(c, cnt, mx, hist, ste) ==
    IF cnt = 1 THEN "False"
    ELSE CHOOSE r \in {
             IF cmp.error THEN "IndexError"
             ELSE IF cnt > mx THEN "True"
             ELSE IF ToleranceTest(c, cmp) THEN "True" ELSE "False" :
             cmp \in {Compared(hist, ste)} } : TRUE

\* the result: "True", "False", or "IndexError" when the call raises
_is_converged(c, cnt, mx, hist, ste) ==
    IF cnt = 1 THEN "False"
    ELSE CHOOSE r \in {
             IF cmp.error THEN "IndexError"
             ELSE IF cnt >= mx THEN "True"
             ELSE IF ToleranceTest(c, cmp) THEN "True" ELSE "False" :
             cmp \in {Compared(hist, ste)} } : TRUE

(***************************************************************************)
(* Construction                                                            *)
(***************************************************************************)
\* __init__ creates self._suite whenever it is absent (lines 60-61), so
\* the attribute exists from construction on
HasSuite == TRUE

SimInit ==
    /\ cfg \in Configs
    /\ is_phenom = _check_if_phenom(cfg)
    /\ kwargs = [carry |-> Unset, pop_Mmin |-> Unset]
    /\ count = 0
    /\ maxiter_attr = <<>>
    /\ suite = <<>>
    /\ history = IF _check_if_phenom(cfg) THEN [phenom |-> TRUE] ELSE Unset
    /\ medium = Unset
    /\ nmedium = 0
    /\ carryover = Unset
    /\ acc = Unset
    /\ gz = InitialRedshift
    /\ pc = "idle"
    /\ outcome = "none"
    /\ conv = Unset
    /\ fbk = Unset
    /\ entry_count = 0
    /\ io = Unset

\* a Global21cm instance as constructed, and no SynthesisModelToy
Init == SimInit /\ toy = Unset

(***************************************************************************)
(* Global21cm.carryover_kwargs and Global21cm.reboot                       *)
(***************************************************************************)
\* the cache as built from Medium instance med (lines 410-424)
BuildCarryover(med, c) ==
    [ tau_instance     |-> IF c.has_tau THEN med.tau ELSE 0,
      pop_psm_instance |-> [i \in 1..Len(c.pops) |->
                              IF c.pops[i].sed_tab THEN med.psm[i] ELSE 0],
      hmf_instance     |-> med.hmf ]

\* the property: built on the first access, the stored one afterwards
carryover_kwargs(co, med, c) ==
    IF IsSet(co) THEN co ELSE BuildCarryover(med, c)

\* a reboot that never takes the carryover entries
RebootMerges_never(cnt) == FALSE

\* reboot(): the cache and self.kwargs after it; _pf, _medium and _history
\* are deleted and __init__ is run again
RebootMerges(cnt) == cnt = 1

RebootCarryover(co, med, c, cnt) ==
    IF RebootMerges(cnt) THEN carryover_kwargs(co, med, c) ELSE co


\* a reboot that never merges the cache into self.kwargs
RebootKwargs_no_merge(kw, co, med, c, cnt) == kw

RebootKwargs(kw, co, med, c, cnt) ==
    IF RebootMerges(cnt)
    THEN [kw EXCEPT !.carry = carryover_kwargs(co, med, c)]
    ELSE kw

(***************************************************************************)
(* Global21cm.run                                                          *)
(***************************************************************************)
\* self.maxiter: the cached attribute, else pf['feedback_maxiter']
MaxiterValue == IF maxiter_attr = <<>> THEN cfg.feedback_maxiter
                ELSE maxiter_attr[1]

\* lines 211-242: entry of run(), called from outside or by run() itself
run_enter ==
    /\ \/ pc = "idle" /\ count < MaxCount
       \/ pc = "recurse"
    /\ entry_count' = IF pc = "idle" THEN count ELSE entry_count
    /\ io' = Unset
    /\ UNCHANGED toy
    /\ IF is_phenom \/ (IsSet(history) /\ ~HasSuite)
       THEN /\ pc' = "idle"
            /\ outcome' = "returned"
            /\ UNCHANGED <<cfg, is_phenom, kwargs, count, maxiter_attr,
                           suite, history, medium, nmedium, carryover, acc,
                           gz, conv, fbk>>
       ELSE /\ IF HasSuite /\ suite # <<>>
               THEN /\ carryover' = RebootCarryover(carryover, medium, cfg,
                                                    count)
                    /\ kwargs' = RebootKwargs(kwargs, carryover, medium, cfg,
                                              count)
                    /\ history' = Unset
                    /\ medium' = NewMedium(kwargs', nmedium + 1, cfg)
                    /\ nmedium' = nmedium + 1
               ELSE /\ IF IsSet(medium)
                       THEN UNCHANGED <<medium, nmedium>>
                       ELSE /\ medium' = NewMedium(kwargs, nmedium + 1, cfg)
                            /\ nmedium' = nmedium + 1
                    /\ UNCHANGED <<carryover, kwargs, history>>
            /\ is_phenom' = _check_if_phenom(cfg)
            /\ acc' = InitLists
            /\ gz' = InitialRedshift
            /\ pc' = "loop"
            /\ outcome' = "running"
            /\ UNCHANGED <<cfg, count, maxiter_attr, suite, conv, fbk>>

\* the record of this iteration put in the place of the last one
SuiteAppend_replaces_last(ste, rec) ==
    IF ste = <<>> THEN <<rec>> ELSE [ste EXCEPT ![Len(ste)] = rec]

\* the record of this iteration appended twice
SuiteAppend_twice(ste, rec) == Append(Append(ste, rec), rec)

\* self._suite.append(record) (line 378), the record of this iteration
\* with its pop_Mmin entries (lines 379-380)
SuiteAppend(ste, rec) == Append(ste, rec)

\* lines 271-391: what run() does once the for loop has ended with lists a
Finish(a) ==
    \E hist \in {MakeHistory(a, cfg)}, cnt \in {count + 1} :
    /\ acc' = a
    /\ history' = hist
    /\ count' = cnt
    /\ UNCHANGED <<cfg, is_phenom, medium, nmedium, carryover, gz,
                   entry_count, io, toy>>
    /\ IF cfg.feedback_LW_Mmin = "None"
       THEN /\ pc' = "idle"
            /\ outcome' = "returned"
            /\ UNCHANGED <<kwargs, maxiter_attr, suite, conv, fbk>>
       ELSE IF MassFormula(cfg) = "NotImplementedError"
       THEN /\ pc' = "idle"
            /\ outcome' = "NotImplementedError"
            /\ UNCHANGED <<kwargs, maxiter_attr, suite, conv, fbk>>
       ELSE \E upd \in {MminUpdate(cfg, cnt, suite, hist)} :
            \E ste \in {SuiteAppend(suite, SuiteRecord(cfg, hist, upd.Mmin))} :
            \E res \in {_is_converged(cfg, cnt, MaxiterValue, hist, ste)} :
            \E cmp \in {IF cnt = 1 THEN Unset ELSE Compared(hist, ste)} :
                /\ fbk' = upd
                /\ suite' = ste
                /\ kwargs' = [kwargs EXCEPT !.pop_Mmin =
                                [f_Mmin |-> [p \in FeltBy(cfg) |->
                                    [z |-> upd.z, Mmin |-> upd.Mmin]]]]
                /\ conv' = [count |-> cnt, maxiter |-> MaxiterValue,
                            result |-> res, cmp |-> cmp]
                /\ maxiter_attr' = IF cnt > 1 /\ res # "IndexError"
                                   THEN <<MaxiterValue>> ELSE maxiter_attr
                /\ pc' = IF res = "False" THEN "recurse" ELSE "idle"
                /\ outcome' = IF res = "False" THEN "running"
                              ELSE IF res = "True" THEN "returned"
                              ELSE "IndexError"

\* the generator yields a record at a redshift not below final_redshift:
\* it is folded, and with track_extrema the stopping rule may end the loop
step_fold ==
    /\ pc = "loop"
    /\ gz > FinalRedshift
    /\ \E z \in StepRedshifts, x \in cfg.inputs, stop \in BOOLEAN :
         /\ z < gz
         /\ ~(z < FinalRedshift)
         /\ stop => cfg.track_extrema
         /\ LET a == Fold(Yield(acc, step(cfg, z, x)), step(cfg, z, x))
            IN  IF stop
                THEN Finish(StoppingPoint(a))
                ELSE /\ acc' = a
                     /\ gz' = z
                     /\ UNCHANGED <<cfg, is_phenom, kwargs, count,
                                    maxiter_attr, suite, history, medium,
                                    nmedium, carryover, pc, outcome, conv,
                                    fbk, entry_count, io, toy>>

\* the generator yields a record below final_redshift: break, not folded
step_break ==
    /\ pc = "loop"
    /\ gz > FinalRedshift
    /\ \E z \in StepRedshifts, x \in cfg.inputs :
         /\ z < gz /\ z < FinalRedshift
         /\ Finish(Yield(acc, step(cfg, z, x)))

\* the generator is exhausted
step_exhausted ==
    /\ pc = "loop"
    /\ gz <= FinalRedshift
    /\ Finish(acc)

(***************************************************************************)
(* Global21cm.save                                                         *)
(***************************************************************************)
\* the files save(prefix, suffix) targets: prefix.history.suffix,
\* prefix.blobs.suffix and prefix.parameters.pkl
Files == {"history", "blobs", "parameters"}

\* suffix: pkl, hdf5 or h5, npz, and anything else is ASCII
Suffixes == {"pkl", "hdf5", "h5", "npz", "txt"}

\* the files as save() finds them: pre[f] tells whether file f exists
Kept(pre) == [f \in Files |-> IF pre[f] THEN "kept" ELSE "absent"]

\* raise NotImplemented('help!') with a different condition: h5 let through
SuiteFormatRaises_h5_passes(ste, suffix) ==
    ste # <<>> /\ suffix \notin {"pkl", "h5"}

\* line 607: a suite can only be pickled
SuiteFormatRaises(ste, suffix) == ste # <<>> /\ suffix # "pkl"

\* lines 621-627 and 642-645: what becomes of prefix.blobs.suffix.  The
\* pickle branch opens the file for writing before it reads self.blobs, so
\* the file is created or emptied even when there are no blobs to dump
BlobsAfter(blobs, suffix, pre) ==
    IF suffix = "pkl" THEN (IF blobs THEN "written" ELSE "truncated")
    ELSE IF suffix = "npz" /\ blobs THEN "written"
    ELSE Kept(pre).blobs

\* lines 673-687: prefix.parameters.pkl is left alone, with a warning, when
\* it exists and clobber is off
ParametersAfter(clobber, pre) ==
    IF pre.parameters /\ ~clobber THEN "kept" ELSE "written"

\* lines 598-687: the exception save() ends in ("none" when it returns) and
\* what has become of every file: "absent", "kept", "removed", "truncated"
\* or "written"
save_files(ste, blobs, suffix, clobber, pre) ==
    IF pre.history /\ ~clobber
    THEN [error |-> "IOError", post |-> Kept(pre)]
    ELSE IF SuiteFormatRaises(ste, suffix)
    THEN [error |-> "TypeError",
          post  |-> [Kept(pre) EXCEPT
                       !.history = IF pre.history THEN "removed"
                                   ELSE "absent"]]
    ELSE IF suffix = "npz" /\ ~blobs
    THEN [error |-> "AttributeError",
          post  |-> [Kept(pre) EXCEPT !.history = "written"]]
    ELSE [error |-> "none",
          post  |-> [history    |-> "written",
                     blobs      |-> BlobsAfter(blobs, suffix, pre),
                     parameters |-> ParametersAfter(clobber, pre)]]

\* save(prefix, suffix, clobber) called on an object that has a history,
\* with any of the targeted files already there or not.  The files are
\* drawn afresh at every call and save() changes nothing of the object, so
\* one call between two runs reaches all that several in a row can
save ==
    /\ pc = "idle"
    /\ cfg.caller_saves
    /\ io = Unset
    /\ IsSet(history)
    /\ \E suffix \in Suffixes, clobber \in BOOLEAN,
          pre \in [Files -> BOOLEAN] :
         \E r \in {save_files(suite, cfg.has_blobs, suffix, clobber, pre)} :
             io' = [suffix |-> suffix, clobber |-> clobber, pre |-> pre,
                    post |-> r.post, error |-> r.error]
    /\ UNCHANGED <<cfg, is_phenom, kwargs, count, maxiter_attr, suite,
                   history, medium, nmedium, carryover, acc, gz, pc, outcome,
                   conv, fbk, entry_count, toy>>

Next == run_enter \/ step_fold \/ step_break \/ step_exhausted \/ save

Spec == Init /\ [][Next]_vars

(***************************************************************************)
(* The run in progress always goes on: the stepping generator is finite    *)
(* and run() is sequential code.  Calls from outside are not forced.       *)
(***************************************************************************)
RunProgress == pc # "idle" /\ Next

FairSpec == Spec /\ WF_vars(RunProgress)

(***************************************************************************)
(* SynthesisModelToy: the energies and wavelengths grids                   *)
(***************************************************************************)
\* h_p * c / erg_per_ev / cm_per_ang, in units in which the grids of the
\* configurations below are made of small rationals
HC == 12

ToyEmin == {1, 2}

ToyEmax == {3, 4}

\* stands for None where a grid step is expected
NoStep == 0

\* pf['source_dE'] and pf['source_dlam']: None or a step
GridSteps == {NoStep, 1, 3}

\* the object after __init__; asserts tells whether the interpreter runs
\* assert statements (it does not under python -O)
Toys ==
    { [ pf |-> [source_Emin |-> lo, source_Emax |-> hi, source_dE |-> dE,
                source_dlam |-> dl],
        asserts      |-> dbg,
        _energies    |-> Unset,
        _wavelengths |-> Unset,
        last         |-> Unset ] :
        lo \in ToyEmin, hi \in ToyEmax, dE \in GridSteps, dl \in GridSteps,
        dbg \in BOOLEAN }

\* np.arange(start, stop, by) for integers, by > 0
Arange(start, stop, by) ==
    LET n == IF stop > start THEN ((stop - start - 1) \div by) + 1 ELSE 0
    IN  [k \in 1..n |-> R(start + (k - 1) * by)]

\* h_p * c / grid (/ erg_per_ev) / cm_per_ang, elementwise
Reciprocal(grid) ==
    AsArray([k \in 1..Len(grid) |-> RDiv(R(HC), grid[k])])

\* lines 50-52: the wavelengths made from source_dlam
WavelengthsByStep(o) ==
    Arange(HC \div o.pf.source_Emax,
           (HC \div o.pf.source_Emin) + o.pf.source_dlam,
           o.pf.source_dlam) \o <<>>

\* lines 26-39: the object after an access to energies, the exception it
\* ended in ("none" when it returned) and the grid returned
energies_get(o) ==
    IF IsSet(o._energies)
    THEN [obj |-> o, error |-> "none", value |-> o._energies]
    ELSE IF o.pf.source_dE # NoStep
    THEN CHOOSE r \in {
             IF o.asserts /\ o.pf.source_dlam # NoStep
             THEN [obj |-> [o EXCEPT !._energies = g],
                   error |-> "AssertionError", value |-> <<>>]
             ELSE [obj |-> [o EXCEPT !._energies = g], error |-> "none",
                   value |-> g] :
             g \in {Arange(o.pf.source_Emin,
                           o.pf.source_Emax + o.pf.source_dE,
                           o.pf.source_dE) \o <<>>} } : TRUE
    ELSE IF o.pf.source_dlam # NoStep
    THEN CHOOSE r \in {
             [obj |-> [o EXCEPT !._wavelengths = w,
                                !._energies = Reciprocal(w)],
              error |-> "none", value |-> Reciprocal(w)] :
             w \in {IF IsSet(o._wavelengths) THEN o._wavelengths
                    ELSE WavelengthsByStep(o)} } : TRUE
    ELSE [obj |-> o, error |-> "ValueError", value |-> <<>>]

\* lines 42-54: the same for an access to wavelengths; with neither step
\* given, w1 + dl adds None to a number
wavelengths_get(o) ==
    IF IsSet(o._wavelengths)
    THEN [obj |-> o, error |-> "none", value |-> o._wavelengths]
    ELSE IF o.pf.source_dE # NoStep
    THEN CHOOSE r \in {
             IF e.error # "none"
             THEN [obj |-> e.obj, error |-> e.error, value |-> <<>>]
             ELSE [obj |-> [e.obj EXCEPT !._wavelengths =
                                            Reciprocal(e.value)],
                   error |-> "none", value |-> Reciprocal(e.value)] :
             e \in {energies_get(o)} } : TRUE
    ELSE IF o.pf.source_dlam = NoStep
    THEN [obj |-> o, error |-> "TypeError", value |-> <<>>]
    ELSE CHOOSE r \in {
             [obj |-> [o EXCEPT !._wavelengths = w], error |-> "none",
              value |-> w] : w \in {WavelengthsByStep(o)} } : TRUE

\* the caller reads the energies property
energies ==
    /\ \E r \in {energies_get(toy)} :
         toy' = [r.obj EXCEPT !.last = [attr |-> "energies",
                                        error |-> r.error,
                                        value |-> r.value,
                                        nth |-> IF IsSet(toy.last)
                                                THEN 2 ELSE 1]]
    /\ UNCHANGED simvars

\* the caller reads the wavelengths property
wavelengths ==
    /\ \E r \in {wavelengths_get(toy)} :
         toy' = [r.obj EXCEPT !.last = [attr |-> "wavelengths",
                                        error |-> r.error,
                                        value |-> r.value,
                                        nth |-> IF IsSet(toy.last)
                                                THEN 2 ELSE 1]]
    /\ UNCHANGED simvars

\* a SynthesisModelToy as constructed, next to an idle Global21cm
ToyInit == cfg = BaseCfg /\ SimInit /\ toy \in Toys

ToyNext == energies \/ wavelengths

ToySpec == ToyInit /\ [][ToyNext]_vars

(***************************************************************************)
(* Properties                                                              *)
(***************************************************************************)
Feedback == cfg.feedback_LW_Mmin # "None"

Stopped == pc = "idle" /\ outcome # "none"

Max(a, b) == IF a > b THEN a ELSE b

\* C1: without feedback, a call of run() on an object whose run() has
\* completed does no stepping and leaves the history, the accumulated step
\* lists and the iteration count as they are.
C1_SecondRunIsNoOp ==
    [][ (pc = "idle" /\ ~Feedback /\ ~is_phenom /\ outcome = "returned")
        => (pc' = "idle" /\ history' = history /\ acc' = acc
            /\ count' = count) ]_vars

\* C2: whenever _is_converged is called with count >= maxiter it returns
\* True.
C2_BoundForcesTrue ==
    (IsSet(conv) /\ conv.count >= conv.maxiter) => conv.result = "True"

\* C3: _is_converged called at count 1 returns False under every history,
\* tolerance and policy, so the run goes on to a second iteration and a
\* feedback run that returns has made at least two.
C3_FirstIterationNotConverged ==
    /\ (IsSet(conv) /\ conv.count = 1)
          => (conv.result = "False" /\ pc \in {"recurse", "loop"})
    /\ (Feedback /\ Stopped /\ outcome = "returned") => Len(suite) >= 2

C3_Witness ==
    /\ IsSet(conv) /\ conv.count = 1 /\ conv.maxiter = 1
    /\ pc = "recurse" /\ Len(suite) = 1

\* C4: when the first run() of a feedback object has stopped, the suite
\* holds at most feedback_maxiter records, and if it holds exactly that
\* many the last call of _is_converged returned True at the bound.
C4_SuiteWithinMaxIter ==
    (Feedback /\ Stopped /\ entry_count = 0)
        => /\ Len(suite) <= cfg.feedback_maxiter
           /\ Len(suite) = cfg.feedback_maxiter
                 => (IsSet(conv) /\ conv.result = "True"
                     /\ conv.count >= conv.maxiter)

\* C5: a call of run() with feedback and a known mass formula stops, and it
\* stops by returning (Converged or MaxIterReached), after at most
\* max(feedback_maxiter, 2) outer iterations, whatever the convergence
\* errors are.
C5_StopsConvergedOrMaxIter ==
    /\ (pc # "idle") ~> (pc = "idle")
    /\ [](Feedback /\ MassFormula(cfg) # "NotImplementedError" /\ Stopped
            => /\ outcome = "returned"
               /\ count - entry_count <= Max(cfg.feedback_maxiter, 2))

\* C5, what the code does keep: a call of run() with feedback stops, by
\* returning or by raising, after at most max(feedback_maxiter, 2) outer
\* iterations.
C5_RunTerminates ==
    /\ (pc # "idle") ~> (pc = "idle")
    /\ [](Feedback => count - entry_count <= Max(cfg.feedback_maxiter, 2))

\* a run with feedback that the IndexError of _is_converged has ended
C5_RaisedState ==
    /\ Feedback /\ Stopped /\ outcome = "IndexError"
    /\ IsSet(conv) /\ conv.result = "IndexError"
    /\ conv.count >= conv.maxiter

C5_Witness ==
    /\ Stopped /\ outcome = "returned" /\ entry_count = 0
    /\ cfg.feedback_LW_rtol = R(0) /\ cfg.feedback_LW_atol = R(0)
    /\ count = MaxIter /\ conv.count = conv.maxiter
    /\ Last(suite).dTb # suite[Len(suite) - 1].dTb

\* C6: the carryover cache is built once, at the first reboot and from the
\* first Medium; its entries never change; self.kwargs carries exactly those
\* instances from then on, through every later reboot.
FirstMediumCache ==
    [ tau_instance     |-> IF cfg.has_tau THEN 1 ELSE 0,
      pop_psm_instance |-> [i \in 1..Len(cfg.pops) |->
                              IF cfg.pops[i].sed_tab THEN 1 ELSE 0],
      hmf_instance     |-> 1 ]

C6_CarryoverStable ==
    /\ [](IsSet(carryover) <=> nmedium >= 2)
    /\ [](IsSet(carryover)
            => /\ carryover = FirstMediumCache
               /\ kwargs.carry = carryover)
    /\ [][IsSet(carryover) => carryover' = carryover]_vars

C6_Witness ==
    /\ nmedium >= 3 /\ medium.id = 3 /\ IsSet(carryover)
    /\ kwargs.carry.hmf_instance = 1
    /\ kwargs.carry.pop_psm_instance = <<1>>

\* C7 as stated: in every suite record and in the injected interpolant, the
\* Mmin value at each redshift point does not exceed the ceiling there.
CeilAt(z) == R(cfg.VirialMass[z])

CeilingRises(z) ==
    \A i, j \in 1..Len(z) : i <= j => RLe(CeilAt(z[i]), CeilAt(z[j]))

WithinRunningCeiling(z, M) ==
    \A i \in 1..Len(z) :
       /\ \E j \in 1..i : RLe(M[i], CeilAt(z[j]))
       /\ (~cfg.feedback_LW_Mmin_uponly \/ CeilingRises(z))
             => RLe(M[i], CeilAt(z[i]))

C8_UpOnlyMonotone ==
    cfg.feedback_LW_Mmin_uponly
      => /\ \A k \in 1..Len(suite) : \A p \in FeltBy(cfg) :
              \A i, j \in 1..Len(suite[k].z) :
                 i <= j => RLe(suite[k].pop_Mmin[p][i], suite[k].pop_Mmin[p][j])
         /\ IsSet(fbk)
              => \A i \in 1..Len(fbk.z) :
                    /\ \E j \in 1..i :
                          fbk.Mmin[i] = RMin(fbk.next[j], fbk.ceil[j])
                    /\ \A j \in 1..i :
                          RLe(RMin(fbk.next[j], fbk.ceil[j]), fbk.Mmin[i])
                    /\ Last(suite).pop_Mmin[cfg.feedback_LW_felt_by[1]][i]
                          = fbk.Mmin[i]

C8_Witness ==
    /\ cfg.feedback_LW_Mmin_uponly /\ IsSet(fbk)
    /\ \E i \in 1..(Len(fbk.z) - 1) :
          RLt(RMin(fbk.next[i + 1], fbk.ceil[i + 1]),
              RMin(fbk.next[i], fbk.ceil[i]))

\* C9: on the first outer iteration the pre-ceiling estimate is the raw
\* f_M(z); from the second on it is the elementwise mean of the raw estimate
\* and the Mmin series of the record appended just before, interpolated to
\* the grid of this iteration.
PreviousRecord == suite[Len(suite) - 1]

C9_Damping ==
    IsSet(fbk)
      => /\ fbk.count = 1 => fbk.next = fbk.raw
         /\ fbk.count >= 2
              => /\ Len(suite) >= 2
                 /\ \A i \in 1..Len(fbk.z) :
                       fbk.next[i] =
                         RDiv(RAdd(fbk.raw[i],
                                   Interp(fbk.z[i], Reverse(PreviousRecord.z),
                                          Reverse(PreviousRecord.pop_Mmin[
                                             cfg.feedback_LW_felt_by[1]]))),
                              R(2))

C9_Witness ==
    /\ IsSet(fbk) /\ fbk.count >= 3 /\ Len(suite) >= 3
    /\ \E i \in 1..Len(fbk.z) :
          /\ Interp(fbk.z[i], Reverse(PreviousRecord.z),
                    Reverse(PreviousRecord.pop_Mmin[1]))
               # Interp(fbk.z[i], Reverse(suite[1].z),
                        Reverse(suite[1].pop_Mmin[1]))
          /\ fbk.next[i] # fbk.raw[i]

\* C10: with a feedback_LW_Mmin that is neither the name nor a function,
\* run() ends in NotImplementedError: no record is appended, no Mmin
\* function is injected, _is_converged is not called and run() does not
\* call itself.
C10_UnknownFormulaFatal ==
    cfg.feedback_LW_Mmin = "other"
      => /\ suite = <<>>
         /\ kwargs.pop_Mmin = Unset
         /\ conv = Unset
         /\ pc # "recurse"
         /\ Stopped => outcome = "NotImplementedError"

C10_Witness ==
    /\ cfg.feedback_LW_Mmin = "other" /\ Stopped /\ count >= 1
    /\ outcome = "NotImplementedError" /\ IsSet(history)

\* the lists run() keeps, all_t .. all_RC_cgm
Accumulators ==
    {"all_t", "all_z", "all_dTb", "all_data_igm", "all_data_cgm",
     "all_RC_igm", "all_RC_cgm"}

\* the history of the iteration that has just been finalized is in place
Finalized == pc \in {"idle", "recurse"} /\ IsSet(history) /\ ~is_phenom
             /\ IsSet(acc)

\* the sequences of a history or of a suite record
Sequences_of(rec) == DOMAIN rec \ {"pop_Mmin"}

Aliases == {<<"dTb", "igm_dTb">>, <<"Ts", "igm_Ts">>, <<"Ja", "igm_Ja">>,
            <<"Jlw", "igm_Jlw">>}

AliasesAgree(rec) ==
    \A al \in Aliases :
        /\ al[1] \in DOMAIN rec /\ al[2] \in DOMAIN rec
        /\ Len(rec[al[1]]) = Len(rec[al[2]])
        /\ \A i \in 1..Len(rec[al[1]]) : rec[al[1]][i] = rec[al[2]][i]

\* C12: in the finalized history, with or without the rate-coefficient
\* histories merged in, and in every suite record, dTb, Ts, Ja and Jlw are
\* elementwise equal to igm_dTb, igm_Ts, igm_Ja and igm_Jlw.
C12_AliasesEqual ==
    /\ Finalized => AliasesAgree(history)
    /\ \A k \in 1..Len(suite) : AliasesAgree(suite[k])

C12_Witness ==
    /\ Finalized /\ "igm_k" \in DOMAIN history
    /\ Len(suite) = 2 /\ "igm_k" \in DOMAIN suite[1]
    /\ Len(history.z) = 3
    /\ \E i \in 1..Len(history.z) : history.igm_Ts[i] # history.igm_dTb[i]

\* C13: the suite only grows at its end: no step of run(), reboot or
\* save() shortens it, and every record it holds stays as it was appended.
C13_SuiteAppendOnly ==
    [][ /\ Len(suite') >= Len(suite)
        /\ Len(suite') <= Len(suite) + 1
        /\ \A k \in 1..Len(suite) : suite'[k] = suite[k] ]_vars

\* three iterations have appended, each after a reboot, and save() has
\* been called on the suite
C13_Witness ==
    /\ Len(suite) = 3 /\ count = 3 /\ nmedium = 3
    /\ suite[1] # suite[2]
    /\ IsSet(io) /\ io.error = "none"

\* C14: a save() without clobber leaves every targeted file that was there
\* before the call as it was, and ends in an error when one was there.
C14_NoClobberProtects ==
    (IsSet(io) /\ ~io.clobber) =>
        \A f \in Files :
            io.pre[f] => (io.post[f] = "kept" /\ io.error # "none")

\* a save() without clobber that has written over a blobs file which was
\* there before
C14_BlobsOverwritten ==
    /\ IsSet(io) /\ ~io.clobber /\ io.pre["blobs"]
    /\ io.post["blobs"] \in {"written", "truncated"}

\* C15: save() on a non-empty suite with a suffix other than pkl ends in an
\* error and writes no file; a history file is written by no such call.
C15_SuiteNeedsPickle ==
    (IsSet(io) /\ suite # <<>> /\ io.suffix # "pkl") =>
        /\ io.error # "none"
        /\ \A f \in Files : io.post[f] \notin {"written", "truncated"}

C15_Witness ==
    /\ IsSet(io) /\ Len(suite) = 2 /\ io.suffix = "h5"
    /\ ~io.pre["history"] /\ io.error = "TypeError"

\* the configuration sets one of the three phenomenological keywords true
AnyPhenomFlag(c) ==
    Truthy(c.tanh_model) \/ Truthy(c.gaussian_model)
    \/ Truthy(c.parametric_model)

\* C16: when any of tanh_model, gaussian_model, parametric_model is set
\* true, whatever the other two are, run() returns at once: it does no
\* stepping and leaves history, iteration count and suite as they are.
C16_PhenomRunIsNoOp ==
    [][ (pc = "idle" /\ AnyPhenomFlag(cfg))
        => (pc' = "idle" /\ history' = history /\ count' = count
            /\ suite' = suite /\ acc' = acc) ]_vars

\* gaussian_model is true, tanh_model is given as false, and run() has
\* stepped and built a history
C16_SteppedDespiteFlag ==
    /\ Truthy(cfg.gaussian_model) /\ cfg.tanh_model = "False"
    /\ ~is_phenom /\ count = 1 /\ IsSet(history) /\ Len(history.z) >= 2

\* a feedback run() has stopped with _is_converged returning True, by the
\* tolerance test (Converged) or at the bound (MaxIterReached)
Terminal ==
    /\ pc = "idle" /\ Feedback /\ outcome = "returned"
    /\ IsSet(conv) /\ conv.result = "True"

\* C17: once a feedback run() has stopped as Converged or MaxIterReached, a
\* further call of run() does not reboot, does no stepping and appends no
\* record.
C17_TerminalStaysStopped ==
    [][ Terminal => (pc' = "idle" /\ nmedium' = nmedium /\ medium' = medium
                     /\ acc' = acc /\ count' = count /\ suite' = suite)
      ]_vars

\* _is_converged has compared the newest record with the one before it
ComparisonMade == IsSet(conv) /\ conv.count > 1 /\ Len(suite) >= 2

\* the points of the previous iteration's grid below ZCut, in the order of
\* the reversed grid, each with the previous dTb there and the newest dTb
\* interpolated to it
PreviousGridBelowCut(rec_pre, rec_now) ==
    LET zpre == Reverse(rec_pre.z)
        dpre == Reverse(RSeq(rec_pre.dTb))
        dnow == InterpAll(zpre, Reverse(rec_now.z),
                          Reverse(RSeq(rec_now.dTb)))
        idx  == Where([i \in 1..Len(zpre) |-> zpre[i] < ZCut], 1)
    IN  [ error |-> FALSE,
          zpre  |-> AsArray([k \in 1..Len(idx) |-> zpre[idx[k]]]),
          pre   |-> AsArray([k \in 1..Len(idx) |-> dpre[idx[k]]]),
          now   |-> AsArray([k \in 1..Len(idx) |-> dnow[idx[k]]]) ]

\* C18: the comparison is made on exactly the points of the previous
\* iteration's grid with z < 50, each with the newest dTb interpolated to
\* that redshift, also when the two grids differ.
C18_ComparesPreviousGrid ==
    ComparisonMade =>
        conv.cmp = PreviousGridBelowCut(suite[Len(suite) - 1],
                                        suite[Len(suite)])

\* the comparison has left out a point of the previous grid below ZCut
C18_PointLeftOut ==
    /\ ComparisonMade /\ ~conv.cmp.error
    /\ \E i \in 1..Len(suite[Len(suite) - 1].z) :
          /\ suite[Len(suite) - 1].z[i] < ZCut
          /\ \A k \in 1..Len(conv.cmp.zpre) :
                conv.cmp.zpre[k] # suite[Len(suite) - 1].z[i]

\* the tolerance test has decided: 1 < count < maxiter and the comparison
\* did not raise
ToleranceDecided ==
    /\ IsSet(conv) /\ conv.count > 1 /\ conv.count < conv.maxiter
    /\ ~conv.cmp.error

\* C19: the mean-error policy.  A mean relative error above rtol > 0 gives
\* False; one that satisfies rtol > 0, equality included, with atol = 0
\* gives True; with atol > 0 and rtol satisfied or zero the result is True
\* exactly when the mean absolute error is below atol.
C19_MeanPolicy ==
    (ToleranceDecided /\ cfg.feedback_LW_mean_err) =>
        \E rtol \in {cfg.feedback_LW_rtol}, atol \in {cfg.feedback_LW_atol},
           rel \in {RMean(ErrRel(conv.cmp))},
           abs \in {RMean(ErrAbs(conv.cmp))} :
            /\ (RGt(rtol, R(0)) /\ RGt(rel, rtol)) => conv.result = "False"
            /\ (RGt(rtol, R(0)) /\ RLe(rel, rtol) /\ atol = R(0))
                  => conv.result = "True"
            /\ (RGt(atol, R(0))
                /\ (rtol = R(0) \/ (RGt(rtol, R(0)) /\ RLe(rel, rtol))))
                  => (conv.result = "True" <=> RLt(abs, atol))

\* the mean relative error is exactly rtol, atol is 0, and the evaluator
\* has returned False
C19_EqualityRejected ==
    /\ ToleranceDecided /\ cfg.feedback_LW_mean_err
    /\ RGt(cfg.feedback_LW_rtol, R(0)) /\ cfg.feedback_LW_atol = R(0)
    /\ RMean(ErrRel(conv.cmp)) = cfg.feedback_LW_rtol
    /\ conv.result = "False"

\* C20: the elementwise policy returns True exactly when every compared
\* pair satisfies |dTb_prev - dTb_new_interp| <= atol +
\* rtol * |dTb_new_interp|.
C20_ElementwisePolicy ==
    (ToleranceDecided /\ ~cfg.feedback_LW_mean_err) =>
        (conv.result = "True" <=>
            \A k \in 1..Len(conv.cmp.pre) :
                RLe(RAbs(RSub(conv.cmp.pre[k], conv.cmp.now[k])),
                    RAdd(cfg.feedback_LW_atol,
                         RMul(cfg.feedback_LW_rtol,
                              RAbs(conv.cmp.now[k])))))

\* two pairs compared, |prev| different from |new| in one of them, and the
\* test passed with rtol > 0
C20_Witness ==
    /\ ToleranceDecided /\ ~cfg.feedback_LW_mean_err
    /\ Len(conv.cmp.pre) = 2 /\ conv.result = "True"
    /\ RGt(cfg.feedback_LW_rtol, R(0))
    /\ \E k \in 1..2 : conv.cmp.pre[k] # conv.cmp.now[k]

\* the i-th record folded in this iteration, as the lists hold it
FoldedRecord(a, i) ==
    LET k == Len(InitLists.all_z) + i
    IN  [ t        |-> a.all_t[k],
          z        |-> a.all_z[k],
          data_igm |-> a.all_data_igm[k],
          data_cgm |-> a.all_data_cgm[k],
          RC_igm   |-> a.all_RC_igm[k],
          RC_cgm   |-> a.all_RC_cgm[k] ]

\* C21: the records folded are the records yielded, in the order yielded,
\* up to the stopping point: a record below final_redshift ends the loop
\* unfolded, a record on which the stopping rule fires is folded and ends
\* the loop, and every folded record has a redshift >= final_redshift.
C21_LoopOrderAndStops ==
    IsSet(acc) =>
        \E ys \in {acc.yielded}, n \in {acc.folded} :
            /\ n \in {Len(ys), Len(ys) - 1}
            /\ \A l \in Accumulators :
                  Len(acc[l]) = Len(InitLists[l]) + n
            /\ \A i \in 1..n :
                  /\ FoldedRecord(acc, i) = ys[i]
                  /\ acc.all_dTb[Len(InitLists.all_z) + i] = ys[i].data_igm.dTb
                  /\ ~(ys[i].z < FinalRedshift)
            /\ n = Len(ys) - 1 =>
                  (ys[Len(ys)].z < FinalRedshift /\ pc # "loop"
                   /\ ~acc.stopped)
            /\ acc.stopped =>
                  (cfg.track_extrema /\ pc # "loop" /\ n = Len(ys)
                   /\ n >= 1)

\* in a second iteration, a record folded and then a record below
\* final_redshift, which has ended the loop and is not in the history
C21_Witness ==
    /\ IsSet(acc) /\ pc = "idle" /\ count = 2 /\ acc.folded = 1
    /\ Len(acc.yielded) = 2 /\ acc.yielded[2].z < FinalRedshift
    /\ Len(history.z) = 2 /\ history.z[2] = acc.yielded[1].z

\* the stopping rule has fired on the first record folded: the loop has
\* ended with that record in the lists
C21_StoppedByRule ==
    /\ IsSet(acc) /\ pc = "idle" /\ acc.stopped /\ acc.folded = 1
    /\ Len(acc.yielded) = 1 /\ acc.yielded[1].z > FinalRedshift
    /\ Len(history.z) = 2

\* C22: the self-shielding factor used at every point of the history is
\* the user's function when feedback_LW_fsh is a function, 1 when it is
\* absent, and only otherwise the built-in power law, taken at the previous
\* record's Mmin from the second iteration on and at the population's own
\* Mmin on the first.
C22_ShieldingSelection ==
    IsSet(fbk) =>
        \A i \in 1..Len(fbk.z) :
            \E z \in {fbk.z[i]} :
                fbk.fsh[i] =
                    IF cfg.feedback_LW_fsh = "function" THEN UserShielding(z)
                    ELSE IF cfg.feedback_LW_fsh = "None" THEN R(1)
                    ELSE PowerLawShielding(z,
                            IF fbk.count > 1
                            THEN RecordMmin(suite[Len(suite) - 1],
                                            cfg.feedback_LW_felt_by[1], z)
                            ELSE PopMmin(z))

\* feedback_LW_fsh is a function and the factor used differs from it
C22_UserFunctionIgnored ==
    /\ IsSet(fbk) /\ cfg.feedback_LW_fsh = "function"
    /\ MassFormula(cfg) = "visbal2015"
    /\ \E i \in 1..Len(fbk.z) : fbk.fsh[i] # UserShielding(fbk.z[i])

\* what population i gives at flux level j: the closed-form estimate when
\* it does not solve the radiative transfer, else the value of its band
\* holding the Lyman-alpha line; nothing when it is no Lyman-alpha source
PopulationFlux(c, j, i, lw) ==
    IF ~c.pops[i].is_lya_src THEN 0
    ELSE IF c.pops[i].solve_rte /\ ~c.pops[i].lya_band THEN 0
    ELSE IF lw THEN LymanWernerFlux(j, i) ELSE LymanAlphaFlux(j, i)

RECURSIVE TotalFlux(_, _, _, _)
TotalFlux(c, j, n, lw) ==
    IF n = 0 THEN 0
    ELSE TotalFlux(c, j, n - 1, lw) + PopulationFlux(c, j, n, lw)

\* C23: the Ja and the Jlw of every yielded record are the sums of the
\* fluxes of the Lyman-alpha sources at the record's step, with feedback
\* configured or not.
C23_FluxSums ==
    IsSet(acc) =>
        \A k \in 1..Len(acc.yielded) :
            \E x \in cfg.inputs :
                /\ acc.yielded[k].data_igm.dTb = x.dTb
                /\ acc.yielded[k].data_igm.Ja =
                      TotalFlux(cfg, x.J, Len(cfg.pops), FALSE)
                /\ acc.yielded[k].data_igm.Jlw =
                      TotalFlux(cfg, x.J, Len(cfg.pops), TRUE)

\* without feedback, a record whose Jlw lacks the flux of a source with
\* the closed-form estimate
C23_JlwShortWithoutFeedback ==
    /\ IsSet(acc) /\ ~Feedback /\ Len(cfg.pops) = 4
    /\ Len(acc.yielded) >= 1
    /\ \E x \in cfg.inputs :
          /\ acc.yielded[1].data_igm.Ja =
                TotalFlux(cfg, x.J, Len(cfg.pops), FALSE)
          /\ acc.yielded[1].data_igm.Jlw =
                TotalFlux(cfg, x.J, Len(cfg.pops), TRUE)
                - LymanWernerFlux(x.J, 1)

\* neither source_dE nor source_dlam is given, or both are
BadGridSpec(o) ==
    (o.pf.source_dE = NoStep) <=> (o.pf.source_dlam = NoStep)

\* C24: with neither or both of source_dE and source_dlam, every access to
\* energies or wavelengths ends in an error, a later access after a failed
\* one included.
C24_GridErrorsFatal ==
    (IsSet(toy) /\ IsSet(toy.last) /\ BadGridSpec(toy))
        => toy.last.error # "none"

\* both steps given, asserts on: an access after the first has returned a
\* grid
C24_GridAfterFailure ==
    /\ IsSet(toy) /\ IsSet(toy.last) /\ toy.asserts
    /\ toy.pf.source_dE # NoStep /\ toy.pf.source_dlam # NoStep
    /\ toy.last.nth = 2 /\ toy.last.error = "none"
    /\ Len(toy.last.value) >= 2


\* a step that enters run() and reaches the time loop
EntersRun == pc # "loop" /\ pc' = "loop"

\* the step has deleted the history and put a new Medium in place
Rebooted ==
    /\ history' = Unset
    /\ nmedium' = nmedium + 1
    /\ medium'.id = nmedium + 1

\* C25: reboot() discards the Medium instance and the finalized history and
\* leaves the suite (same records, same order), the iteration count, the
\* max-iteration value and the carryover cache as they were; run() performs it
\* on entry exactly when the suite is non-empty; the carryover entries are
\* merged into self.kwargs at the reboot with count = 1 and at no other.
C25_RebootFrame ==
    [][EntersRun =>
         IF suite # <<>>
         THEN /\ Rebooted
              /\ suite' = suite
              /\ count' = count
              /\ maxiter_attr' = maxiter_attr
              /\ IsSet(carryover')
              /\ carryover' = carryover_kwargs(carryover, medium, cfg)
              /\ IF count = 1
                 THEN kwargs' = [kwargs EXCEPT !.carry = carryover']
                 ELSE kwargs' = kwargs
         ELSE /\ history' = history
              /\ IsSet(medium) => medium' = medium
              /\ UNCHANGED <<suite, count, maxiter_attr, carryover, kwargs>>
      ]_vars

C25_Witness ==
    /\ pc = "loop" /\ gz = InitialRedshift /\ acc = InitLists
    /\ count = 2 /\ Len(suite) = 2
    /\ history = Unset /\ medium.id = 3
    /\ IsSet(carryover) /\ kwargs.carry = carryover


\* a step in which an outer iteration runs to its end: the count goes up and
\* the feedback block, if there is one, gets as far as the append
CompletesIteration == count' # count /\ outcome' # "NotImplementedError"

\* C26: with feedback every completed iteration adds one to the count and one
\* record to the suite, so the suite is as long as the count at every
\* convergence evaluation and whenever run() returns; at an evaluation with
\* count >= 2 the second-to-last record is the one the previous iteration
\* left last and the last record is this iteration's, with its Mmin entry for
\* every population that feels the feedback.  Without feedback the suite
\* stays empty.
C26_SuiteTracksCount ==
    /\ [](~Feedback => suite = <<>>)
    /\ [](Feedback /\ outcome = "returned" => Len(suite) = count)
    /\ [](Feedback /\ IsSet(conv)
            => conv.count = count /\ Len(suite) = count)
    /\ [][Feedback /\ CompletesIteration
            => /\ count' = count + 1
               /\ Len(suite) = count
               /\ Len(suite') = count'
               /\ SubSeq(suite', 1, count) = suite
               /\ IsSet(conv') /\ conv'.count = count'
               /\ Last(suite') = SuiteRecord(cfg, history', fbk'.Mmin)
               /\ DOMAIN Last(suite').pop_Mmin = FeltBy(cfg)
               /\ count' >= 2
                    => /\ suite'[count' - 1] = Last(suite)
                       /\ conv'.cmp = Compared(history', suite')
                       /\ fbk'.count = count'
      ]_vars

C26_Witness ==
    /\ Feedback /\ IsSet(conv) /\ conv.count = 3 /\ count = 3
    /\ Len(suite) = 3 /\ outcome = "returned"
    /\ Last(suite).z = history.z
    /\ suite[2].z # suite[3].z

\* a run without feedback called again and again
C26_NoFeedbackRerun ==
    ~Feedback /\ count = MaxCount /\ suite = <<>> /\ outcome = "returned"


\* C27 as stated: a save() that ends in an error leaves every stored file as
\* it was before the call; in particular a history file that was there is
\* neither removed nor altered, whatever clobber, suffix and suite are.
C27_FailedSaveLeavesFiles ==
    (IsSet(io) /\ io.error # "none") => io.post = Kept(io.pre)

\* a failed save() that has removed the history file it found
C27_HistoryRemoved ==
    /\ IsSet(io) /\ io.error = "TypeError"
    /\ io.clobber /\ io.pre.history /\ io.suffix # "pkl" /\ suite # <<>>
    /\ io.post.history = "removed"

=============================================================================
